---- MODULE Spec2Model ----
(***************************************************************************)
(* The htmx login views of the server: the entry points                    *)
(* partial_view_login_*_post, credential_step and the state-resolution     *)
(* loop partial_view_login_step, with the request's CookieJar, the         *)
(* client's cookie store and the external decision engine (handle_auth)    *)
(* as a nondeterministic black box.                                        *)
(***************************************************************************)
EXTENDS Integers, Sequences, FiniteSets, TLC

\* ------------------------------------------------------------------ bounds
\* Session identifiers the decision engine may hand out.
MaxSid == 2
\* Bearer tokens the decision engine may hand out.
MaxTok == 1
\* Longest mechanism list of a Choose outcome.
MaxMechs == 2
\* Requests one client sends in a run.
MaxRequests == 2

\* ------------------------------------------------------------ the protocol
\* let mut safety = 3;
SafetyBudget == 3

COOKIE_AUTH_SESSION_ID == "auth-session-id"
COOKIE_BEARER_TOKEN == "bearer"

\* Option<Uuid>: None is 0, Some(s) is s.
NoSid == 0
Sids == 1..MaxSid
Tokens == 1..MaxTok

\* AuthMech values the engine may offer.
AuthMechs == {"Password", "Passkey"}
\* AuthAllowed variants; Anonymous is the one the views do not support.
AuthAllowedKinds == {"Anonymous", "BackupCode", "Password", "Totp", "SecurityKey", "Passkey"}
\* AuthIssueSession
IssueModes == {"Token", "Cookie"}
\* Reasons of a denial.
DenyReasons == {"bad credential", "account locked"}
\* OperationError values the decision client may fault with.
EngineFaults == {"NotAuthenticated"}
\* state.domain
Domain == "idm.example.com"

RECURSIVE SeqsUpTo(_, _)
SeqsUpTo(S, n) ==
    IF n = 0 THEN {<<>>}
    ELSE LET shorter == SeqsUpTo(S, n - 1)
         IN shorter \cup {Append(s, x) : s \in {t \in shorter : Len(t) = n - 1}, x \in S}

MechLists == SeqsUpTo(AuthMechs, MaxMechs)
\* Prompt lists: empty, every single prompt, and two lists of several prompts.
PromptLists ==
    {<<>>} \cup {<<k>> : k \in AuthAllowedKinds}
           \cup {<<"Password", "Totp">>, <<"Totp", "Password">>}

\* AuthState, all variants in one record shape.
AuthStateOf(tag, mechs, prompts, token, issue, reason) ==
    [tag |-> tag, mechs |-> mechs, prompts |-> prompts,
     token |-> token, issue |-> issue, reason |-> reason]
Choose(ms) == AuthStateOf("Choose", ms, <<>>, 0, "-", "-")
Continue(ps) == AuthStateOf("Continue", <<>>, ps, 0, "-", "-")
Success(t, i) == AuthStateOf("Success", <<>>, <<>>, t, i, "-")
Denied(r) == AuthStateOf("Denied", <<>>, <<>>, 0, "-", r)
NoAuthState == AuthStateOf("-", <<>>, <<>>, 0, "-", "-")

AuthStates ==
    {Choose(ms) : ms \in MechLists} \cup {Continue(ps) : ps \in PromptLists}
    \cup {Success(t, i) : t \in Tokens, i \in IssueModes}
    \cup {Denied(r) : r \in DenyReasons}

\* Result<AuthResult, OperationError> of handle_auth.
EngineReplies ==
    [ok : {TRUE}, state : AuthStates, sessionid : Sids, err : {"-"}]
    \cup [ok : {FALSE}, state : {NoAuthState}, sessionid : {NoSid}, err : EngineFaults]

\* AuthRequest steps, with the session id they were submitted with.
Submission(sid, step, arg) == [sessionid |-> sid, step |-> step, arg |-> arg]

NoSubmission == Submission(NoSid, "-", [kind |-> "-", text |-> "", chars |-> <<>>, num |-> <<0, 0>>])

\* ---------------------------------------------------------------- cookies
\* Cookie values: a signed session id, garbage, a bearer token, or the
\* empty value of a removal cookie.
CookieValue(kind, id, sig) == [kind |-> kind, id |-> id, sig |-> sig]
Garbage == CookieValue("garbage", 0, "none")
EmptyValue == CookieValue("empty", 0, "none")

MkCookie(name, value, secure, same_site, http_only, domain, path) ==
    [name |-> name, value |-> value, secure |-> secure, same_site |-> same_site,
     http_only |-> http_only, domain |-> domain, path |-> path]

BoolAttr(b) == IF b THEN "true" ELSE "false"

\* Cookie::new(name, value): no attribute set.
CookieNew(name, value) == MkCookie(name, value, "unset", "unset", "unset", "unset", "unset")

\* Cookie::from(name): an empty value.
CookieFrom(name) == CookieNew(name, EmptyValue)

\* A CookieJar: the request's cookies and the changes made to them.
JarOf(cookies) == [orig |-> cookies, delta |-> {}]

\* jar.add(cookie)
JarAdd(jar, cookie) ==
    [jar EXCEPT !.delta = {d \in @ : d.cookie.name # cookie.name}
                          \cup {[cookie |-> cookie, removed |-> FALSE]}]

\* A remove that only forgets the pending change and never emits a removal.
JarRemovePendingOnly(jar, cookie) ==
    [jar EXCEPT !.delta = {d \in @ : d.cookie.name # cookie.name}]

\* jar.remove(cookie): a removal cookie when the request carried the name,
\* otherwise only the pending change is dropped.
JarRemove(jar, cookie) ==
    IF \E c \in jar.orig : c.name = cookie.name
    THEN [jar EXCEPT !.delta = {d \in @ : d.cookie.name # cookie.name}
                               \cup {[cookie |-> cookie, removed |-> TRUE]}]
    ELSE [jar EXCEPT !.delta = {d \in @ : d.cookie.name # cookie.name}]

\* jar.get(name), as a set of at most one cookie.
JarGet(jar, name) ==
    LET d == {x \in jar.delta : x.cookie.name = name}
    IN IF d # {} THEN {x.cookie : x \in {y \in d : ~y.removed}}
       ELSE {c \in jar.orig : c.name = name}

\* The cookies the client sends with a request: names and values only.
RequestCookies(store) == {CookieNew(c.name, c.value) : c \in store}

\* The client's store after the Set-Cookie headers of a response.
ApplySetCookies(store, delta) ==
    {c \in store : \A d \in delta : d.cookie.name # c.name}
    \cup {d.cookie : d \in {x \in delta : ~x.removed}}

\* ------------------------------------------------------------------ codec
\* kref.sign(Jws::into_json(SessionId { sessionid }))
SignSessionId(sid) == CookieValue("jws", sid, "valid")

\* state.reinflate_uuid_from_bytes(s): the session id of a value whose
\* signature verifies, None otherwise.
reinflate_uuid_from_bytes(value) ==
    IF value.kind = "jws" /\ value.sig = "valid" THEN value.id ELSE NoSid

\* jar.get(COOKIE_AUTH_SESSION_ID).map(|c| c.value()).and_then(reinflate)
MaybeSessionId(jar) ==
    LET got == JarGet(jar, COOKIE_AUTH_SESSION_ID)
    IN IF got = {} THEN NoSid
       ELSE reinflate_uuid_from_bytes((CHOOSE c \in got : TRUE).value)

\* ------------------------------------------------------------------ views
\* A rendered response body: a template with its fields, or a redirect with
\* its status and location.
ViewOf(view, mechs, errors, passkey, err_code, location) ==
    [view |-> view, mechs |-> mechs, errors |-> errors, passkey |-> passkey,
     err_code |-> err_code, location |-> location]
NoView == ViewOf("-", <<>>, "-", FALSE, "-", "-")
UnrecoverableErrorView(err_code) == ViewOf("UnrecoverableErrorView", <<>>, "-", FALSE, err_code, "-")
LoginMechPartialView(mechs) == ViewOf("LoginMechPartialView", mechs, "-", FALSE, "-", "-")
LoginTotpPartialView(errors) == ViewOf("LoginTotpPartialView", <<>>, errors, FALSE, "-", "-")
LoginPasswordPartialView == ViewOf("LoginPasswordPartialView", <<>>, "-", FALSE, "-", "-")
LoginBackupCodePartialView == ViewOf("LoginBackupCodePartialView", <<>>, "-", FALSE, "-", "-")
LoginWebauthnPartialView(passkey) == ViewOf("LoginWebauthnPartialView", <<>>, "-", passkey, "-", "-")
\* Redirect::to is 303 See Other, Redirect::temporary is 307.
RedirectTo(location) == ViewOf("Redirect 303", <<>>, "-", FALSE, "-", location)
RedirectTemporary(location) == ViewOf("Redirect 307", <<>>, "-", FALSE, "-", location)

\* AuthMech::to_value
to_value(m) ==
    CASE m = "Password" -> "password"
      [] m = "Passkey" -> "passkey"
      [] OTHER -> "anonymous"

\* Mech { value: m.to_value(), name: m }
Mech(m) == [name |-> m, value |-> to_value(m)]

\* A list of mechanisms rendered last to first.
MechsOfReversed(allowed) ==
    [i \in 1..Len(allowed) |-> Mech(allowed[Len(allowed) + 1 - i])]

\* allowed.into_iter().map(|m| Mech { .. }).collect()
MechsOf(allowed) == [i \in 1..Len(allowed) |-> Mech(allowed[i])]

\* How partial_view_login_step ended: "Ok", "Err" or "panic", with the line
\* of the return; NotReturned while it runs or when it was not called.
Returned(how, line) == [how |-> how, line |-> line]
NotReturned == Returned("-", 0)

\* What a request ends with: the view and the Set-Cookie headers.
ResponseOf(view, set_cookies) == [view |-> view, set_cookies |-> set_cookies]
NoResponse == ResponseOf(NoView, {})

\* ------------------------------------------------------------------ state
VARIABLES
    debug_assertions,   \* the build: whether debug_assert! is compiled in
    secure_cookies,     \* state.secure_cookies
    client,             \* the client's cookie store
    issued,             \* session ids the engine has returned so far
    requests,           \* requests sent so far
    pc,                 \* "idle", "step" (in the loop), "done" (response ready)
    jar,                \* the request's CookieJar
    auth_state,         \* auth_state of partial_view_login_step
    sessionid,          \* sessionid of partial_view_login_step
    safety,             \* safety of partial_view_login_step
    iterations,         \* loop bodies executed so far in this request
    n_submitted,        \* handle_auth calls made by this request
    last_submitted,     \* the latest of them: session id and AuthRequest step
    ret,                \* how partial_view_login_step ended, and at which source line
    response            \* the response of the request

vars == <<debug_assertions, secure_cookies, client, issued, requests, pc, jar,
          auth_state, sessionid, safety, iterations, n_submitted, last_submitted,
          ret, response>>

config == <<debug_assertions, secure_cookies>>

\* Cookie stores a client may hold before its first request: no continuity
\* cookie, garbage, or a value whose signature does not verify; with or
\* without a bearer cookie of an earlier login.
StaleBearer ==
    MkCookie(COOKIE_BEARER_TOKEN, CookieValue("bearer", 0, "none"),
             "false", "Lax", "true", Domain, "/")
InitialStores ==
    {a \cup b :
        a \in {{}, {CookieNew(COOKIE_AUTH_SESSION_ID, Garbage)},
               {CookieNew(COOKIE_AUTH_SESSION_ID, CookieValue("jws", 1, "invalid"))}},
        b \in {{}, {StaleBearer}}}

Init ==
    /\ debug_assertions \in BOOLEAN
    /\ secure_cookies \in BOOLEAN
    /\ client \in InitialStores
    /\ issued = {}
    /\ requests = 0
    /\ pc = "idle"
    /\ jar = JarOf({})
    /\ auth_state = NoAuthState
    /\ sessionid = NoSid
    /\ safety = 0
    /\ iterations = 0
    /\ n_submitted = 0
    /\ last_submitted = NoSubmission
    /\ ret = NotReturned
    /\ response = NoResponse

\* ------------------------------------------------------- the cookies set
\* A continuity cookie scoped to the domain, as the bearer cookie is.
token_cookie_with_domain(sid) ==
    [CookieNew(COOKIE_AUTH_SESSION_ID, SignSessionId(sid)) EXCEPT
        !.secure = BoolAttr(secure_cookies),
        !.same_site = "Strict",
        !.http_only = "true",
        !.domain = Domain]

\* token_cookie of the Choose arm
token_cookie(sid) ==
    [CookieNew(COOKIE_AUTH_SESSION_ID, SignSessionId(sid)) EXCEPT
        !.secure = BoolAttr(secure_cookies),
        !.same_site = "Strict",
        !.http_only = "true"]

\* bearer_cookie of the Success arm
bearer_cookie(token) ==
    [CookieNew(COOKIE_BEARER_TOKEN, CookieValue("bearer", token, "none")) EXCEPT
        !.secure = BoolAttr(secure_cookies),
        !.same_site = "Lax",
        !.http_only = "true",
        !.domain = Domain,
        !.path = "/"]

\* jar = jar.add(token_cookie)
ChooseJar(j, sid) == JarAdd(j, token_cookie(sid))

\* A Success arm that adds the bearer cookie and forgets the removal.
SuccessJarNoRemove(j, token) == JarAdd(j, bearer_cookie(token))

\* jar = jar.add(bearer_cookie).remove(Cookie::from(COOKIE_AUTH_SESSION_ID))
SuccessJar(j, token) ==
    JarRemove(JarAdd(j, bearer_cookie(token)), CookieFrom(COOKIE_AUTH_SESSION_ID))

\* A Denied arm that leaves the jar as it is.
DeniedJarUntouched(j) == j

\* jar = jar.remove(Cookie::from(COOKIE_AUTH_SESSION_ID))
DeniedJar(j) == JarRemove(j, CookieFrom(COOKIE_AUTH_SESSION_ID))

\* ------------------------------------------------------------ form inputs
Usernames == {"alice"}
Passwords == {"correct-password"}
\* u32 values are kept as <<hi, lo>> with value hi * Split + lo, so that no
\* number passes a signed 32-bit integer. u32::MAX is 42949 * 100000 + 67295.
Split == 100000
U32MaxHi == 42949
U32MaxLo == 67295
U32Err == <<-1, 0>>
U32Zero == <<0, 0>>

Whitespace == {" "}
Digits == {"0", "1", "2", "3", "4", "5", "6", "7", "8", "9"}
DigitValue(c) ==
    CASE c = "0" -> 0 [] c = "1" -> 1 [] c = "2" -> 2 [] c = "3" -> 3 [] c = "4" -> 4
      [] c = "5" -> 5 [] c = "6" -> 6 [] c = "7" -> 7 [] c = "8" -> 8 [] OTHER -> 9

\* Strings a client may type into the TOTP and backup-code forms, as
\* sequences of characters.
TotpInputs ==
    {<<" ", "1", "2", "3", "4", "5", "6", " ">>, <<"a", "b", "c", "1", "2", "3">>,
     <<>>, <<" ">>, <<"-", "7">>, <<"1", " ", "2">>,
     <<"+", "1", "2", "3", "4", "5", "6">>, <<"0", "1", "2", "3", "4", "5", "6">>,
     <<"4", "2", "9", "4", "9", "6", "7", "2", "9", "5">>,
     <<"4", "2", "9", "4", "9", "6", "7", "2", "9", "6">>}
BackupCodeInputs == {<<" ", "A", "B", "-", "1", " ">>, <<"A", "B", "-", "1">>}

\* str::trim
RECURSIVE TrimStart(_)
TrimStart(s) ==
    IF s # <<>> /\ Head(s) \in Whitespace THEN TrimStart(Tail(s)) ELSE s
RECURSIVE TrimEnd(_)
TrimEnd(s) ==
    IF s # <<>> /\ s[Len(s)] \in Whitespace THEN TrimEnd(SubSeq(s, 1, Len(s) - 1)) ELSE s
\* A trim that leaves the string as typed.
TrimNothing(s) == s

Trim(s) == TrimEnd(TrimStart(s))

\* The value of a digit string, or U32Err once it passes u32::MAX.
RECURSIVE DigitsValue(_, _)
DigitsValue(s, acc) ==
    IF s = <<>> THEN acc
    ELSE LET low == acc[2] * 10 + DigitValue(Head(s))
             next == <<acc[1] * 10 + (low \div Split), low % Split>>
         IN IF next[1] > U32MaxHi \/ (next[1] = U32MaxHi /\ next[2] > U32MaxLo)
            THEN U32Err
            ELSE DigitsValue(Tail(s), next)

\* u32::from_str: an optional '+', then one or more digits, no overflow.
U32FromStr(s) ==
    LET body == IF s # <<>> /\ Head(s) = "+" THEN Tail(s) ELSE s
    IN IF body = <<>> \/ \E i \in 1..Len(body) : body[i] \notin Digits
       THEN U32Err
       ELSE DigitsValue(body, U32Zero)

\* AuthCredential and the other step payloads, in one record shape.
\* text is a string field, chars a typed-in string kept as its characters,
\* num a u32.
StepArg(kind, text, chars, num) == [kind |-> kind, text |-> text, chars |-> chars, num |-> num]

\* ----------------------------------------------------- ends of a request
\* Ok((jar, response).into_response()): the jar's changes go out as
\* Set-Cookie headers.
ReturnOk(view, j) ==
    /\ pc' = "done"
    /\ ret' = Returned("Ok", 565)
    /\ jar' = j
    /\ response' = ResponseOf(view, j.delta)

\* An Err return whose caller still sends the jar's changes.
ReturnErrCommitsJar(err_code, j, line) ==
    /\ pc' = "done"
    /\ ret' = Returned("Err", line)
    /\ jar' = j
    /\ response' = ResponseOf(UnrecoverableErrorView(err_code), j.delta)

\* return Err(err_code): the jar is dropped and the caller renders
\* UnrecoverableErrorView { err_code, .. } alone.
ReturnErr(err_code, j, line) ==
    /\ pc' = "done"
    /\ ret' = Returned("Err", line)
    /\ jar' = j
    /\ response' = ResponseOf(UnrecoverableErrorView(err_code), {})

\* if safety == 0
SafetyExhausted(s) == s = 0

\* A budget that is never spent.
SafetyStuck(s) == s

\* safety -= 1
SafetyAfter(s) == s - 1

\* The head of the loop when budget is left.
LoopHead ==
    /\ pc = "step"
    /\ ~SafetyExhausted(safety)
    /\ safety' = SafetyAfter(safety)
    /\ iterations' = iterations + 1

\* ------------------------------------------------- partial_view_login_step
\* A budget check whose caller sends the jar's changes with the error view.
StepLoopSafetyCommitsJar ==
    /\ pc = "step"
    /\ SafetyExhausted(safety)
    /\ IF debug_assertions
       THEN /\ pc' = "done"
            /\ ret' = Returned("panic", 393)
            /\ response' = NoResponse
            /\ jar' = jar
       ELSE ReturnErrCommitsJar("InvalidSessionState", jar, 394)
    /\ UNCHANGED <<config, client, issued, requests, auth_state, sessionid,
                   safety, iterations, n_submitted, last_submitted>>

\* if safety == 0 { error!(..); debug_assert!(false); return Err(InvalidSessionState) }
StepLoopSafety ==
    /\ pc = "step"
    /\ SafetyExhausted(safety)
    /\ IF debug_assertions
       THEN /\ pc' = "done"
            /\ ret' = Returned("panic", 393)
            /\ response' = NoResponse
            /\ jar' = jar
       ELSE ReturnErr("InvalidSessionState", jar, 394)
    /\ UNCHANGED <<config, client, issued, requests, auth_state, sessionid,
                   safety, iterations, n_submitted, last_submitted>>

\* Choose: the signer fails (the ? of lines 403-412).
StepChooseSignFail ==
    /\ LoopHead
    /\ auth_state.tag = "Choose"
    /\ ReturnErr("InvalidSessionState", jar, 412)
    /\ UNCHANGED <<config, client, issued, requests, auth_state, sessionid,
                   n_submitted, last_submitted>>

\* An empty Choose that falls through to the list arm.
StepChooseEmptyRendersList ==
    /\ LoopHead
    /\ auth_state.tag = "Choose"
    /\ Len(auth_state.mechs) = 0
    /\ ReturnOk(LoginMechPartialView(MechsOf(auth_state.mechs)), ChooseJar(jar, sessionid))
    /\ UNCHANGED <<config, client, issued, requests, auth_state, sessionid,
                   n_submitted, last_submitted>>

\* An empty Choose rejected before the continuity cookie is issued.
StepChooseEmptyBeforeCookie ==
    /\ LoopHead
    /\ auth_state.tag = "Choose"
    /\ Len(auth_state.mechs) = 0
    /\ ReturnOk(UnrecoverableErrorView("InvalidState"), jar)
    /\ UNCHANGED <<config, client, issued, requests, auth_state, sessionid,
                   n_submitted, last_submitted>>

\* Choose with no mechanism.
StepChooseEmpty ==
    /\ LoopHead
    /\ auth_state.tag = "Choose"
    /\ Len(auth_state.mechs) = 0
    /\ ReturnOk(UnrecoverableErrorView("InvalidState"), ChooseJar(jar, sessionid))
    /\ UNCHANGED <<config, client, issued, requests, auth_state, sessionid,
                   n_submitted, last_submitted>>

\* An autoselect that forgets the session id.
AutoselectSubmissionNoSid(sid, mechs) ==
    Submission(NoSid, "Begin", StepArg("Begin", mechs[1], <<>>, U32Zero))

\* The step the autoselect submits.
AutoselectSubmission(sid, mechs) == Submission(sid, "Begin", StepArg("Begin", mechs[1], <<>>, U32Zero))

\* An autoselect that goes on with the session id of the reply.
StepChooseAutoselectAdoptsSid ==
    /\ LoopHead
    /\ auth_state.tag = "Choose"
    /\ Len(auth_state.mechs) = 1
    /\ n_submitted' = n_submitted + 1
    /\ last_submitted' = AutoselectSubmission(sessionid, auth_state.mechs)
    /\ \E inter \in EngineReplies :
          /\ IF inter.ok
             THEN /\ auth_state' = inter.state
                  /\ sessionid' = inter.sessionid
                  /\ jar' = ChooseJar(jar, sessionid)
                  /\ UNCHANGED <<pc, ret, response>>
             ELSE /\ ReturnErr(inter.err, ChooseJar(jar, sessionid), 446)
                  /\ UNCHANGED <<auth_state, sessionid>>
    /\ UNCHANGED <<config, client, issued, requests>>

\* Choose with one mechanism: submit it and loop. Of the reply only
\* inter.state is read.
StepChooseAutoselect ==
    /\ LoopHead
    /\ auth_state.tag = "Choose"
    /\ Len(auth_state.mechs) = 1
    /\ n_submitted' = n_submitted + 1
    /\ last_submitted' = AutoselectSubmission(sessionid, auth_state.mechs)
    /\ \E inter \in EngineReplies :
          /\ IF inter.ok
             THEN /\ auth_state' = inter.state
                  /\ jar' = ChooseJar(jar, sessionid)
                  /\ UNCHANGED <<pc, ret, response>>
             ELSE /\ ReturnErr(inter.err, ChooseJar(jar, sessionid), 446)
                  /\ UNCHANGED auth_state
    /\ UNCHANGED <<config, client, issued, requests, sessionid>>

\* Choose with several mechanisms: render the list.
StepChooseRender ==
    /\ LoopHead
    /\ auth_state.tag = "Choose"
    /\ Len(auth_state.mechs) > 1
    /\ ReturnOk(LoginMechPartialView(MechsOf(auth_state.mechs)), ChooseJar(jar, sessionid))
    /\ UNCHANGED <<config, client, issued, requests, auth_state, sessionid,
                   n_submitted, last_submitted>>

\* A prompt view that tells the passkey flow for a security key.
PromptViewPasskeyAlways(auth_allowed) ==
    CASE auth_allowed = "Totp" -> LoginTotpPartialView("None")
      [] auth_allowed = "Password" -> LoginPasswordPartialView
      [] auth_allowed = "BackupCode" -> LoginBackupCodePartialView
      [] auth_allowed = "SecurityKey" -> LoginWebauthnPartialView(TRUE)
      [] auth_allowed = "Passkey" -> LoginWebauthnPartialView(TRUE)
      [] OTHER -> NoView

\* The view of a single prompt; NoView for a variant the views do not have.
PromptView(auth_allowed) ==
    CASE auth_allowed = "Totp" -> LoginTotpPartialView("None")
      [] auth_allowed = "Password" -> LoginPasswordPartialView
      [] auth_allowed = "BackupCode" -> LoginBackupCodePartialView
      [] auth_allowed = "SecurityKey" -> LoginWebauthnPartialView(FALSE)
      [] auth_allowed = "Passkey" -> LoginWebauthnPartialView(TRUE)
      [] OTHER -> NoView

\* A Continue arm that drops the continuity cookie before it answers.
StepContinueDropsCookie ==
    /\ LoopHead
    /\ auth_state.tag = "Continue"
    /\ LET allowed == auth_state.prompts
           j == JarRemove(jar, CookieFrom(COOKIE_AUTH_SESSION_ID))
       IN CASE Len(allowed) = 0 ->
                 ReturnOk(UnrecoverableErrorView("InvalidState"), j)
            [] Len(allowed) = 1 ->
                 IF PromptView(allowed[1]) # NoView
                 THEN ReturnOk(PromptView(allowed[1]), j)
                 ELSE ReturnErr("InvalidState", j, 510)
            [] OTHER -> ReturnErr("InvalidState", j, 516)
    /\ UNCHANGED <<config, client, issued, requests, auth_state, sessionid,
                   n_submitted, last_submitted>>

\* Continue: one view per supported prompt; nothing touches the jar.
StepContinue ==
    /\ LoopHead
    /\ auth_state.tag = "Continue"
    /\ LET allowed == auth_state.prompts
       IN CASE Len(allowed) = 0 ->
                 ReturnOk(UnrecoverableErrorView("InvalidState"), jar)
            [] Len(allowed) = 1 ->
                 IF PromptView(allowed[1]) # NoView
                 THEN ReturnOk(PromptView(allowed[1]), jar)
                 ELSE ReturnErr("InvalidState", jar, 510)
            [] OTHER -> ReturnErr("InvalidState", jar, 516)
    /\ UNCHANGED <<config, client, issued, requests, auth_state, sessionid,
                   n_submitted, last_submitted>>

\* A Success arm that issues the cookie whatever the issuance mode.
StepSuccessAnyIssue ==
    /\ LoopHead
    /\ auth_state.tag = "Success"
    /\ ReturnOk(RedirectTo("/ui/apps"), SuccessJar(jar, auth_state.token))
    /\ UNCHANGED <<config, client, issued, requests, auth_state, sessionid,
                   n_submitted, last_submitted>>

\* Success: the bearer cookie for AuthIssueSession::Cookie, a fault for
\* AuthIssueSession::Token.
StepSuccess ==
    /\ LoopHead
    /\ auth_state.tag = "Success"
    /\ IF auth_state.issue = "Token"
       THEN ReturnErr("InvalidState", jar, 531)
       ELSE ReturnOk(RedirectTo("/ui/apps"), SuccessJar(jar, auth_state.token))
    /\ UNCHANGED <<config, client, issued, requests, auth_state, sessionid,
                   n_submitted, last_submitted>>

\* A Denied arm that tells the client why.
StepDeniedTellsReason ==
    /\ LoopHead
    /\ auth_state.tag = "Denied"
    /\ ReturnOk(ViewOf("Redirect 307", <<>>, "-", FALSE, auth_state.reason, "/ui/getrekt"),
                DeniedJar(jar))
    /\ UNCHANGED <<config, client, issued, requests, auth_state, sessionid,
                   n_submitted, last_submitted>>

\* Denied(_reason): the reason is not read.
StepDenied ==
    /\ LoopHead
    /\ auth_state.tag = "Denied"
    /\ ReturnOk(RedirectTemporary("/ui/getrekt"), DeniedJar(jar))
    /\ UNCHANGED <<config, client, issued, requests, auth_state, sessionid,
                   n_submitted, last_submitted>>

partial_view_login_step ==
    \/ StepLoopSafety
    \/ StepChooseSignFail
    \/ StepChooseEmpty
    \/ StepChooseAutoselect
    \/ StepChooseRender
    \/ StepContinue
    \/ StepSuccess
    \/ StepDenied

\* ------------------------------------------------------------ entry points
\* handle_auth(sid, step).await and the match on its result: on Ok the loop
\* of partial_view_login_step starts, on Err the error view is the response.
SubmitAndStep(sid, step, arg) ==
    /\ pc = "idle"
    /\ requests < MaxRequests
    /\ requests' = requests + 1
    /\ n_submitted' = 1
    /\ last_submitted' = Submission(sid, step, arg)
    /\ iterations' = 0
    /\ \E inter \in EngineReplies :
          /\ issued' = IF inter.ok THEN issued \cup {inter.sessionid} ELSE issued
          /\ IF inter.ok
             THEN /\ pc' = "step"
                  /\ jar' = JarOf(RequestCookies(client))
                  /\ auth_state' = inter.state
                  /\ sessionid' = inter.sessionid
                  /\ safety' = SafetyBudget
                  /\ ret' = NotReturned
                  /\ response' = NoResponse
             ELSE /\ pc' = "done"
                  /\ jar' = JarOf(RequestCookies(client))
                  /\ auth_state' = NoAuthState
                  /\ sessionid' = NoSid
                  /\ safety' = 0
                  /\ ret' = NotReturned
                  /\ response' = ResponseOf(UnrecoverableErrorView(inter.err), {})
    /\ UNCHANGED <<config, client>>

\* An entry point that never reads the continuity cookie.
RequestSessionIdNone == NoSid

\* The session id an entry point other than begin submits.
RequestSessionId == MaybeSessionId(JarOf(RequestCookies(client)))

partial_view_login_begin_post ==
    \E username \in Usernames :
        SubmitAndStep(NoSid, "Init2", StepArg("Init2", username, <<>>, U32Zero))

partial_view_login_mech_choose_post ==
    \E mech \in AuthMechs :
        SubmitAndStep(RequestSessionId, "Begin", StepArg("Begin", mech, <<>>, U32Zero))

credential_step(auth_cred) ==
    SubmitAndStep(RequestSessionId, "Cred", auth_cred)

\* partial_view_login_totp_post for one posted form: a form that does not
\* parse is answered at once, the jar is dropped and no step is submitted.
LoginTotpFormPost(form) ==
    LET totp == U32FromStr(Trim(form))
    IN IF totp = U32Err
       THEN /\ pc = "idle"
            /\ requests < MaxRequests
            /\ requests' = requests + 1
            /\ pc' = "done"
            /\ n_submitted' = 0
            /\ last_submitted' = NoSubmission
            /\ iterations' = 0
            /\ jar' = JarOf(RequestCookies(client))
            /\ auth_state' = NoAuthState
            /\ sessionid' = NoSid
            /\ safety' = 0
            /\ ret' = NotReturned
            /\ response' = ResponseOf(LoginTotpPartialView("Syntax"), {})
            /\ UNCHANGED <<config, client, issued>>
       ELSE credential_step(StepArg("Totp", "", <<>>, totp))

partial_view_login_totp_post ==
    \E form \in TotpInputs : LoginTotpFormPost(form)

partial_view_login_pw_post ==
    \E password \in Passwords :
        credential_step(StepArg("Password", password, <<>>, U32Zero))

partial_view_login_backupcode_post ==
    \E form \in BackupCodeInputs :
        credential_step(StepArg("BackupCode", "", Trim(form), U32Zero))

partial_view_login_passkey_post ==
    credential_step(StepArg("Passkey", "assertion", <<>>, U32Zero))

partial_view_login_seckey_post ==
    credential_step(StepArg("SecurityKey", "assertion", <<>>, U32Zero))

\* The response reaches the client, which applies its Set-Cookie headers;
\* a panicked handler sends nothing.
Deliver ==
    /\ pc = "done"
    /\ pc' = "idle"
    /\ client' = ApplySetCookies(client, response.set_cookies)
    /\ jar' = JarOf({})
    /\ auth_state' = NoAuthState
    /\ sessionid' = NoSid
    /\ safety' = 0
    /\ iterations' = 0
    /\ n_submitted' = 0
                /\ last_submitted' = NoSubmission
    /\ ret' = NotReturned
    /\ response' = NoResponse
    /\ UNCHANGED <<config, issued, requests>>

Next ==
    \/ partial_view_login_begin_post
    \/ partial_view_login_mech_choose_post
    \/ partial_view_login_totp_post
    \/ partial_view_login_pw_post
    \/ partial_view_login_backupcode_post
    \/ partial_view_login_passkey_post
    \/ partial_view_login_seckey_post
    \/ partial_view_login_step
    \/ Deliver

Spec == Init /\ [][Next]_vars

\* --------------------------------------------- one login, end to end
\* The first response of a login by password: the request began with a
\* username, the engine's Choose of Password alone was autoselected and
\* answered with a Continue of the Password prompt alone.
PasswordPromptAfterAutoselect ==
    /\ requests = 1
    /\ pc = "done"
    /\ iterations = 2
    /\ n_submitted = 2
    /\ last_submitted.step = "Begin"
    /\ last_submitted.arg.text = "Password"
    /\ auth_state = Continue(<<"Password">>)

\* A client that begins with its username and, once it is shown the
\* password prompt, posts its password; the engine answers as it likes.
NextEndToEnd ==
    \/ requests = 0 /\ partial_view_login_begin_post
    \/ partial_view_login_step
    \/ (requests = 1 => PasswordPromptAfterAutoselect) /\ Deliver
    \/ requests = 1 /\ partial_view_login_pw_post

SpecEndToEnd == Init /\ [][NextEndToEnd]_vars

\* ============================================================== properties
Has(cookies, name) == \E c \in cookies : c.name = name

\* The cookies a response sets (removal cookies aside).
FreshlySet(name) == \E d \in response.set_cookies : d.cookie.name = name /\ ~d.removed

\* The cookies the request arrived with.
EntryJar == JarOf(jar.orig)

\* The client's store once the response in hand has been applied.
ClientAfter == ApplySetCookies(client, response.set_cookies)

\* partial_view_login_step returned Ok on the given outcome.
ReturnedOkOn(tag) == pc = "done" /\ ret.how = "Ok" /\ auth_state.tag = tag

\* C1: when partial_view_login_step returns on Success with cookie issuance,
\* the cookie set it returns holds the bearer cookie carrying the engine's
\* token and no continuity cookie, and so does the client's store after the
\* response; whatever cookies the request carried and however many
\* autoselects came first.
C1_SuccessCookieSet ==
    (ReturnedOkOn("Success") /\ auth_state.issue = "Cookie") =>
        /\ \E c \in JarGet(jar, COOKIE_BEARER_TOKEN) :
              c.value.kind = "bearer" /\ c.value.id = auth_state.token
        /\ JarGet(jar, COOKIE_AUTH_SESSION_ID) = {}
        /\ \E c \in ClientAfter :
              c.name = COOKIE_BEARER_TOKEN /\ c.value.id = auth_state.token
        /\ ~Has(ClientAfter, COOKIE_AUTH_SESSION_ID)

\* Success after an autoselect, for a request that carried a continuity
\* cookie and a bearer cookie of its own.
C1_Witness ==
    /\ ReturnedOkOn("Success")
    /\ iterations >= 2
    /\ Has(jar.orig, COOKIE_AUTH_SESSION_ID)
    /\ Has(jar.orig, COOKIE_BEARER_TOKEN)

\* C2 as stated: on Denied the returned cookie set holds neither the
\* continuity cookie nor the bearer cookie, for every entry cookie set.
C2_DeniedNoCookies ==
    ReturnedOkOn("Denied") =>
        /\ JarGet(jar, COOKIE_AUTH_SESSION_ID) = {}
        /\ JarGet(jar, COOKIE_BEARER_TOKEN) = {}

\* C2 amended: on Denied the returned cookie set holds no continuity cookie,
\* the response sets no bearer cookie, and a bearer cookie is in the set
\* exactly when the request arrived with it, unchanged.
C2_DeniedSetsNeither ==
    ReturnedOkOn("Denied") =>
        /\ JarGet(jar, COOKIE_AUTH_SESSION_ID) = {}
        /\ ~Has(ClientAfter, COOKIE_AUTH_SESSION_ID)
        /\ ~FreshlySet(COOKIE_BEARER_TOKEN)
        /\ ~FreshlySet(COOKIE_AUTH_SESSION_ID)
        /\ JarGet(jar, COOKIE_BEARER_TOKEN) = JarGet(EntryJar, COOKIE_BEARER_TOKEN)

\* Denied after an autoselect, for a request that carried both cookies.
C2_Witness ==
    /\ ReturnedOkOn("Denied")
    /\ iterations >= 2
    /\ Has(jar.orig, COOKIE_AUTH_SESSION_ID)
    /\ Has(jar.orig, COOKIE_BEARER_TOKEN)

\* C3: no response sets both the continuity cookie and the bearer cookie;
\* a response that sets the bearer cookie leaves no continuity cookie in
\* the returned set or in the client's store; a response to a denial sets
\* neither cookie.
C3_NeverBothFresh ==
    pc = "done" =>
        /\ ~(FreshlySet(COOKIE_AUTH_SESSION_ID) /\ FreshlySet(COOKIE_BEARER_TOKEN))
        /\ FreshlySet(COOKIE_BEARER_TOKEN) =>
              /\ JarGet(jar, COOKIE_AUTH_SESSION_ID) = {}
              /\ ~Has(ClientAfter, COOKIE_AUTH_SESSION_ID)
        /\ auth_state.tag = "Denied" =>
              /\ ~FreshlySet(COOKIE_AUTH_SESSION_ID)
              /\ ~FreshlySet(COOKIE_BEARER_TOKEN)

\* The bearer cookie set after two autoselects had added the continuity
\* cookie to a jar that did not carry one.
C3_Witness ==
    /\ pc = "done"
    /\ FreshlySet(COOKIE_BEARER_TOKEN)
    /\ iterations = 3
    /\ ~Has(jar.orig, COOKIE_AUTH_SESSION_ID)

\* C4 as stated: when the request ends with the engine's last outcome being
\* Success (either issuance mode) or Denied, the client's store holds no
\* continuity cookie once the response is applied.
C4_ContinuityRemovedOnTerminal ==
    (pc = "done" /\ auth_state.tag \in {"Success", "Denied"}) =>
        ~Has(ClientAfter, COOKIE_AUTH_SESSION_ID)

\* The loop ran out of budget with every outcome a singleton Choose: the
\* entry outcome and SafetyBudget autoselects, none of which faulted.
BudgetSpentOnSingletons ==
    /\ pc = "done"
    /\ n_submitted = SafetyBudget + 1
    /\ auth_state.tag = "Choose"
    /\ Len(auth_state.mechs) = 1
    /\ ret.line # 446

C6_SingletonAutoselect ==
    /\ [](response.view.view = "LoginMechPartialView" => Len(response.view.mechs) >= 2)
    /\ [][(pc = "step" /\ safety > 0 /\ auth_state.tag = "Choose"
               /\ Len(auth_state.mechs) = 1) =>
            \/ /\ ret'.how = "Err"
               /\ ret'.line = 412
               /\ n_submitted' = n_submitted
            \/ /\ n_submitted' = n_submitted + 1
               /\ last_submitted' =
                     Submission(sessionid, "Begin",
                                StepArg("Begin", auth_state.mechs[1], <<>>, U32Zero))
               /\ last_submitted'.sessionid # NoSid
               /\ response'.view.view # "LoginMechPartialView"]_vars

\* An autoselect has been submitted and answered with the next outcome.
C6_Witness ==
    /\ pc = "step"
    /\ iterations = 1
    /\ n_submitted = 2
    /\ last_submitted.step = "Begin"
    /\ auth_state.tag = "Continue"

\* C7: a loop iteration that dispatches on a Choose with no mechanism ends
\* the request with the unrecoverable-error view and submits nothing, and a
\* request that has its response submits nothing more.
C7_EmptyChooseIsTerminal ==
    /\ [][(pc = "step" /\ safety > 0 /\ auth_state.tag = "Choose"
               /\ Len(auth_state.mechs) = 0) =>
            /\ pc' = "done"
            /\ response'.view.view = "UnrecoverableErrorView"
            /\ n_submitted' = n_submitted
            /\ last_submitted' = last_submitted]_vars
    /\ [][pc = "done" => (pc' = "idle" /\ n_submitted' = 0)]_vars

\* The error view for an empty Choose that an autoselect was answered with.
C7_Witness ==
    /\ ReturnedOkOn("Choose")
    /\ Len(auth_state.mechs) = 0
    /\ iterations = 2
    /\ response.view = UnrecoverableErrorView("InvalidState")

\* C8: when handle_auth faults during an autoselect, the response is the
\* error view with no Set-Cookie header, the client's store stays as it was
\* when the request arrived, and the continuity cookie that the iteration had
\* added to the jar is dropped with it.
C8_AutoselectFaultNoCookies ==
    (pc = "done" /\ ret.line = 446) =>
        /\ ret.how = "Err"
        /\ response.view.view = "UnrecoverableErrorView"
        /\ response.view.err_code \in EngineFaults
        /\ response.set_cookies = {}
        /\ ClientAfter = client
        /\ RequestCookies(ClientAfter) = jar.orig
        /\ JarGet(jar, COOKIE_AUTH_SESSION_ID) = {token_cookie(sessionid)}

\* The fault of the second autoselect of a request that carried no
\* continuity cookie.
C8_Witness ==
    /\ pc = "done"
    /\ ret.line = 446
    /\ iterations = 2
    /\ ~Has(jar.orig, COOKIE_AUTH_SESSION_ID)
    /\ JarGet(jar, COOKIE_AUTH_SESSION_ID) # {}

\* C9: every response partial_view_login_step returns on a Choose outcome,
\* the selection view for two or more mechanisms and the error view for
\* none, sets the continuity cookie signed for the invocation's session id.
C9_ChooseResponseCarriesCookie ==
    ReturnedOkOn("Choose") =>
        /\ \/ /\ Len(auth_state.mechs) >= 2
              /\ response.view.view = "LoginMechPartialView"
           \/ /\ Len(auth_state.mechs) = 0
              /\ response.view = UnrecoverableErrorView("InvalidState")
        /\ \E d \in response.set_cookies :
              /\ ~d.removed
              /\ d.cookie.name = COOKIE_AUTH_SESSION_ID
              /\ reinflate_uuid_from_bytes(d.cookie.value) = sessionid
        /\ \E c \in ClientAfter :
              /\ c.name = COOKIE_AUTH_SESSION_ID
              /\ reinflate_uuid_from_bytes(c.value) = sessionid

\* The error view for an empty Choose, sent to a client that held no
\* continuity cookie.
C9_Witness ==
    /\ ReturnedOkOn("Choose")
    /\ Len(auth_state.mechs) = 0
    /\ ~Has(client, COOKIE_AUTH_SESSION_ID)
    /\ Has(ClientAfter, COOKIE_AUTH_SESSION_ID)

\* C10 as stated: every AuthStep::Begin and AuthStep::Cred is submitted with
\* a session id the engine has issued; None goes with AuthStep::Init2 only.
C10_StepsCarrySessionId ==
    (n_submitted > 0 /\ last_submitted.step \in {"Begin", "Cred"}) =>
        /\ last_submitted.sessionid # NoSid
        /\ last_submitted.sessionid \in issued

\* A loop iteration is about to dispatch on the given outcome.
Dispatching(tag) == pc = "step" /\ ~SafetyExhausted(safety) /\ auth_state.tag = tag

\* The loop ended inside an arm, not at the budget check.
EndedInArm(tag) == pc = "done" /\ auth_state.tag = tag /\ ret.line \notin {393, 394}

\* C11: the Continue arm never changes the cookie set: the jar after a loop
\* iteration that dispatches on Continue equals the jar before it, whether
\* the prompt list is empty, one supported prompt, one unsupported prompt
\* or several prompts, and a response it renders carries exactly the changes
\* the jar held on entry to the arm.
C11_ContinueKeepsCookies ==
    [][Dispatching("Continue") =>
          /\ jar' = jar
          /\ pc' = "done"
          /\ ret'.how = "Ok" => response'.set_cookies = jar.delta]_vars

\* A prompt rendered for a Continue that answered an autoselect, the jar
\* still holding the continuity cookie the Choose iteration added.
C11_Witness ==
    /\ ReturnedOkOn("Continue")
    /\ iterations = 2
    /\ Len(auth_state.prompts) = 1
    /\ jar.delta = {[cookie |-> token_cookie(sessionid), removed |-> FALSE]}
    /\ response.set_cookies = jar.delta

\* The prompt variants the views support.
SupportedPrompts == {"Password", "Totp", "BackupCode", "SecurityKey", "Passkey"}

\* C12: a loop iteration that dispatches on a Continue with exactly one
\* prompt of a supported variant renders the view of that variant: Password
\* the password view, Totp the TOTP view with no error marker, BackupCode
\* the backup-code view, SecurityKey the webauthn view with passkey = false,
\* Passkey the webauthn view with passkey = true; different variants give
\* different views.
C12_PromptViewMatches ==
    /\ \A a, b \in SupportedPrompts : PromptView(a) = PromptView(b) => a = b
    /\ (EndedInArm("Continue") /\ Len(auth_state.prompts) = 1
            /\ auth_state.prompts[1] \in SupportedPrompts) =>
          /\ ret.how = "Ok"
          /\ LET p == auth_state.prompts[1]
                 v == response.view
             IN /\ p = "Password" => v = LoginPasswordPartialView
                /\ p = "Totp" => v = LoginTotpPartialView("None")
                /\ p = "BackupCode" => v = LoginBackupCodePartialView
                /\ p = "SecurityKey" =>
                      v.view = "LoginWebauthnPartialView" /\ v.passkey = FALSE
                /\ p = "Passkey" =>
                      v.view = "LoginWebauthnPartialView" /\ v.passkey = TRUE

\* The webauthn view rendered for a security-key prompt.
C12_Witness ==
    /\ ReturnedOkOn("Continue")
    /\ auth_state.prompts = <<"SecurityKey">>
    /\ response.view = LoginWebauthnPartialView(FALSE)

\* What each form input is as a u32 once trimmed: " 123456 ", "+123456" and
\* "0123456" are 123456, "4294967295" is u32::MAX, and "abc123", "", " ",
\* "-7", "1 2" and "4294967296" are no u32.
TotpMeaning(form) ==
    CASE form \in {<<" ", "1", "2", "3", "4", "5", "6", " ">>,
                   <<"+", "1", "2", "3", "4", "5", "6">>,
                   <<"0", "1", "2", "3", "4", "5", "6">>} -> <<1, 23456>>
      [] form = <<"4", "2", "9", "4", "9", "6", "7", "2", "9", "5">> -> <<U32MaxHi, U32MaxLo>>
      [] OTHER -> U32Err

\* C13: a TOTP form whose trimmed input is no unsigned 32-bit integer is
\* answered by partial_view_login_totp_post with the TOTP view carrying the
\* syntax-error marker, with no step submitted, partial_view_login_step not
\* entered, no Set-Cookie header and the client's store as it was; a form
\* that parses, such as " 123456 ", is submitted as AuthStep::Cred with
\* AuthCredential::Totp of the parsed value.
C13_TotpSyntaxRejectedLocally ==
    [][\A form \in TotpInputs :
          (pc = "idle" /\ LoginTotpFormPost(form)) =>
             IF TotpMeaning(form) = U32Err
             THEN /\ pc' = "done"
                  /\ response'.view = LoginTotpPartialView("Syntax")
                  /\ n_submitted' = 0
                  /\ last_submitted' = NoSubmission
                  /\ iterations' = 0
                  /\ safety' = 0
                  /\ ret' = NotReturned
                  /\ response'.set_cookies = {}
                  /\ ApplySetCookies(client', response'.set_cookies) = client
             ELSE /\ n_submitted' = 1
                  /\ last_submitted'.step = "Cred"
                  /\ last_submitted'.arg = StepArg("Totp", "", <<>>, TotpMeaning(form))
                  /\ response'.view # LoginTotpPartialView("Syntax")]_vars

\* The syntax-error view answered to a client that holds the continuity
\* cookie of a login in progress.
C13_Witness ==
    /\ pc = "done"
    /\ response = ResponseOf(LoginTotpPartialView("Syntax"), {})
    /\ n_submitted = 0
    /\ iterations = 0
    /\ MaybeSessionId(JarOf(RequestCookies(client))) # NoSid

\* C14: a login over two requests of one client. The request that begins
\* with a username, when the engine answers Choose([Password]), autoselects
\* with the session id of the invocation and, when the engine then answers
\* Continue([Password]), responds with the password prompt and sets the
\* continuity cookie of that session. The request that then posts the
\* password carries that cookie, submits the credential with its session
\* id and, when the engine answers Success(token, Cookie), responds with
\* the redirect to /ui/apps, sets the bearer cookie of the token and leaves
\* the client without a continuity cookie.
C14_PasswordLoginEndToEnd ==
    /\ PasswordPromptAfterAutoselect =>
          /\ ret.how = "Ok"
          /\ last_submitted = AutoselectSubmission(sessionid, <<"Password">>)
          /\ response.view = LoginPasswordPartialView
          /\ [cookie |-> token_cookie(sessionid), removed |-> FALSE] \in response.set_cookies
          /\ token_cookie(sessionid) \in ClientAfter
    /\ (requests = 2 /\ n_submitted = 1) =>
          /\ last_submitted.step = "Cred"
          /\ last_submitted.arg.kind = "Password"
          /\ last_submitted.sessionid \in issued
          /\ \E c \in jar.orig :
                /\ c.name = COOKIE_AUTH_SESSION_ID
                /\ c.value = SignSessionId(last_submitted.sessionid)
    /\ (requests = 2 /\ pc = "done" /\ iterations = 1
            /\ auth_state.tag = "Success" /\ auth_state.issue = "Cookie") =>
          /\ ret.how = "Ok"
          /\ response.view = RedirectTo("/ui/apps")
          /\ [cookie |-> bearer_cookie(auth_state.token), removed |-> FALSE]
                \in response.set_cookies
          /\ bearer_cookie(auth_state.token) \in ClientAfter
          /\ ~Has(ClientAfter, COOKIE_AUTH_SESSION_ID)
          /\ JarGet(jar, COOKIE_AUTH_SESSION_ID) = {}

\* The redirect that ends the login: the second request, its password
\* answered with Success and cookie issuance.
C14_Witness ==
    /\ requests = 2
    /\ pc = "done"
    /\ iterations = 1
    /\ auth_state.tag = "Success"
    /\ auth_state.issue = "Cookie"
    /\ response.view = RedirectTo("/ui/apps")
    /\ Has(client, COOKIE_AUTH_SESSION_ID)
    /\ ~Has(ClientAfter, COOKIE_AUTH_SESSION_ID)

\* C15: the response to a Denied outcome is determined by the cookies the
\* request arrived with and by nothing else: it is the temporary redirect to
\* /ui/getrekt, and the cookie set is the entry set with the continuity
\* cookie removed (a removal cookie when the request carried one, no change
\* otherwise). Two Denied outcomes that differ in their reason therefore
\* give the same redirect and the same cookie set.
C15_DeniedReasonDiscarded ==
    ReturnedOkOn("Denied") =>
        /\ auth_state.reason \in DenyReasons
        /\ response.view = RedirectTemporary("/ui/getrekt")
        /\ jar.delta =
              IF Has(jar.orig, COOKIE_AUTH_SESSION_ID)
              THEN {[cookie |-> CookieFrom(COOKIE_AUTH_SESSION_ID), removed |-> TRUE]}
              ELSE {}
        /\ response.set_cookies = jar.delta

\* A denial for a locked account that answered an autoselect, for a
\* request that carried a continuity cookie.
C15_Witness ==
    /\ ReturnedOkOn("Denied")
    /\ auth_state.reason = "account locked"
    /\ iterations = 2
    /\ Has(jar.orig, COOKIE_AUTH_SESSION_ID)
    /\ response.view = RedirectTemporary("/ui/getrekt")

\* C16: the selection view rendered for a Choose with two or more
\* mechanisms has one entry for each mechanism the engine returned, in the
\* order returned: as many entries as mechanisms, the i-th entry naming the
\* i-th mechanism; nothing is added, dropped or reordered.
C16_MechListInOrder ==
    (ReturnedOkOn("Choose") /\ Len(auth_state.mechs) >= 2) =>
        /\ response.view.view = "LoginMechPartialView"
        /\ Len(response.view.mechs) = Len(auth_state.mechs)
        /\ \A i \in 1..Len(auth_state.mechs) :
              /\ response.view.mechs[i].name = auth_state.mechs[i]
              /\ response.view.mechs[i].value = to_value(auth_state.mechs[i])

\* The list the engine returned with Passkey before Password, rendered
\* after an autoselect.
C16_Witness ==
    /\ ReturnedOkOn("Choose")
    /\ iterations = 2
    /\ auth_state.mechs = <<"Passkey", "Password">>
    /\ response.view.mechs[1].name = "Passkey"
    /\ response.view.mechs[2].name = "Password"

\* C17: every cookie the request handlers put in the jar or in a response,
\* removal cookies aside, is a continuity cookie or a bearer cookie with the
\* attributes of its kind: the continuity cookie http-only, same-site
\* Strict, secure as state.secure_cookies says and no domain; the bearer
\* cookie http-only, same-site Lax, secure as state.secure_cookies says,
\* the domain state.domain and the path "/".
C17_CookieAttributes ==
    \A d \in jar.delta \cup response.set_cookies :
        ~d.removed =>
            /\ d.cookie.name \in {COOKIE_AUTH_SESSION_ID, COOKIE_BEARER_TOKEN}
            /\ d.cookie.http_only = "true"
            /\ d.cookie.secure = (IF secure_cookies THEN "true" ELSE "false")
            /\ d.cookie.name = COOKIE_AUTH_SESSION_ID =>
                  /\ d.cookie.same_site = "Strict"
                  /\ d.cookie.domain = "unset"
            /\ d.cookie.name = COOKIE_BEARER_TOKEN =>
                  /\ d.cookie.same_site = "Lax"
                  /\ d.cookie.domain = Domain
                  /\ d.cookie.path = "/"

\* With secure cookies on: a response that sets the bearer cookie for a
\* client whose continuity cookie an earlier response had set.
C17_Witness ==
    /\ secure_cookies
    /\ pc = "done"
    /\ \E d \in response.set_cookies :
          /\ ~d.removed
          /\ d.cookie.name = COOKIE_BEARER_TOKEN
          /\ d.cookie.secure = "true"
    /\ \E c \in client :
          /\ c.name = COOKIE_AUTH_SESSION_ID
          /\ c.same_site = "Strict"
          /\ c.secure = "true"

\* An engine outcome the loop has no answer to: a Continue with no prompt,
\* with several prompts or with one unsupported prompt, or a Success that
\* issues a token.
Malformed(st) ==
    \/ /\ st.tag = "Continue"
       /\ \/ Len(st.prompts) # 1
          \/ st.prompts[1] \notin SupportedPrompts
    \/ /\ st.tag = "Success"
       /\ st.issue # "Cookie"

\* The response in hand sets the bearer cookie.
SetsBearer(resp) ==
    \E d \in resp.set_cookies : d.cookie.name = COOKIE_BEARER_TOKEN /\ ~d.removed

\* C18: faults and malformed outcomes end the request at once. A step that
\* calls handle_auth either goes on with the outcome it got or, on a fault,
\* ends the request with the unrecoverable-error view of that fault; a loop
\* iteration that dispatches on a malformed outcome ends the request with
\* the unrecoverable-error view and submits nothing; neither response sets
\* a bearer cookie, and a request that has its response submits nothing
\* more.
C18_FaultsNeverRetried ==
    /\ [][((pc = "idle" /\ n_submitted' = 1) \/ (pc = "step" /\ n_submitted' = n_submitted + 1)) =>
            \/ /\ pc' = "step"
               /\ auth_state'.tag \in {"Choose", "Continue", "Success", "Denied"}
            \/ /\ pc' = "done"
               /\ response'.view.view = "UnrecoverableErrorView"
               /\ response'.view.err_code \in EngineFaults
               /\ ~SetsBearer(response')]_vars
    /\ [][(Dispatching("Continue") \/ Dispatching("Success")) /\ Malformed(auth_state) =>
            /\ pc' = "done"
            /\ n_submitted' = n_submitted
            /\ last_submitted' = last_submitted
            /\ response'.view = UnrecoverableErrorView("InvalidState")
            /\ ~SetsBearer(response')]_vars
    /\ [][pc = "done" =>
            /\ pc' = "idle"
            /\ n_submitted' = 0
            /\ last_submitted' = NoSubmission]_vars

\* The error view for a Success that issues a token, the answer to an
\* autoselect.
C18_Witness ==
    /\ pc = "done"
    /\ iterations = 2
    /\ n_submitted = 2
    /\ auth_state.tag = "Success"
    /\ auth_state.issue = "Token"
    /\ response.view = UnrecoverableErrorView("InvalidState")

\* The lines partial_view_login_step returns Err from: the spent budget,
\* the signer, the autoselect's handle_auth, an unsupported prompt, several
\* prompts, a Success that issues a token.
FaultReturns == {394, 412, 446, 510, 516, 531}

\* C19: when partial_view_login_step ends without a rendered response, by
\* any of its Err returns or by the panic of the budget check, the request's
\* response has no Set-Cookie header, whatever continuity cookie earlier
\* Choose iterations had added to the jar, and the client's store stays as
\* it was when the request arrived; a response carries cookie changes only
\* when the loop ended with a rendered response, and then it carries all
\* the jar's changes.
C19_FaultReturnsDropTheJar ==
    pc = "done" =>
        /\ ret.how = "Err" =>
              /\ ret.line \in FaultReturns
              /\ response.view.view = "UnrecoverableErrorView"
        /\ ret.how = "panic" => response = NoResponse
        /\ ret.how \in {"Err", "panic"} =>
              /\ response.set_cookies = {}
              /\ ClientAfter = client
              /\ RequestCookies(ClientAfter) = jar.orig
        /\ response.set_cookies # {} =>
              /\ ret.how = "Ok"
              /\ response.set_cookies = jar.delta

\* The budget fault of a build without debug assertions: the jar holds the
\* continuity cookie of three autoselects, the request carried none, and
\* the response sets nothing.
C19_Witness ==
    /\ pc = "done"
    /\ ret = Returned("Err", 394)
    /\ ~Has(jar.orig, COOKIE_AUTH_SESSION_ID)
    /\ jar.delta = {[cookie |-> token_cookie(sessionid), removed |-> FALSE]}
    /\ response.set_cookies = {}
    /\ ~Has(ClientAfter, COOKIE_AUTH_SESSION_ID)

\* C20: while partial_view_login_step runs, its session id stays the one it
\* was entered with: no loop iteration changes it, whatever session id the
\* reply to an autoselect carries; every step an iteration submits goes with
\* it, and every continuity cookie in the jar's changes encodes it.
C20_SessionIdIsFixed ==
    [][pc = "step" =>
          /\ sessionid' = sessionid
          /\ sessionid \in Sids
          /\ n_submitted' # n_submitted =>
                /\ last_submitted'.step = "Begin"
                /\ last_submitted'.sessionid = sessionid
          /\ \A d \in jar'.delta :
                (d.cookie.name = COOKIE_AUTH_SESSION_ID /\ ~d.removed) =>
                    reinflate_uuid_from_bytes(d.cookie.value) = sessionid]_vars

\* After two autoselects of a request that carried the continuity cookie of
\* another session: the steps went with the session id of the invocation,
\* and the cookie in the jar encodes it.
C20_Witness ==
    /\ pc = "step"
    /\ iterations = 2
    /\ n_submitted = 3
    /\ last_submitted.sessionid = sessionid
    /\ MaybeSessionId(EntryJar) \notin {NoSid, sessionid}
    /\ JarGet(jar, COOKIE_AUTH_SESSION_ID) = {token_cookie(sessionid)}

\* The views that ask for a credential.
CredentialViews ==
    {"LoginTotpPartialView", "LoginPasswordPartialView", "LoginBackupCodePartialView",
     "LoginWebauthnPartialView"}

\* C21 as stated: whenever the response of a request is a credential-entry
\* view rendered for a Continue outcome of the session the invocation runs
\* for, the client's store holds, once the response is applied, a
\* continuity cookie that encodes that session; whatever outcomes the
\* engine gave, a Continue in answer to the initiating step included.
C21_PromptLeavesContinuityCookie ==
    (ReturnedOkOn("Continue") /\ response.view.view \in CredentialViews) =>
        \E c \in ClientAfter :
            /\ c.name = COOKIE_AUTH_SESSION_ID
            /\ reinflate_uuid_from_bytes(c.value) = sessionid

====
